---- MODULE Spec2Model ----
(***************************************************************************)
(* A model of plotRaster (src/plotRaster2.py): one call of the function    *)
(* is a run through its nine commented blocks, from "If there is no input  *)
(* data" (line 213) to the return (line 288).  The collaborators the       *)
(* function calls (sim.analysis.prepareRaster, ScatterPlotter, the axis,   *)
(* mpatches) are outside the file: the model records what is handed to     *)
(* them.  An exception raised by the body ends the call in pc = "raised";  *)
(* what the decorator of line 12 makes of it is outside the file.          *)
(*                                                                         *)
(* The body reads the names title, xlabel, ylabel, s, marker, linewidth    *)
(* and plt, which the file neither takes as parameters nor binds; whether  *)
(* the module namespace binds them when the call runs is a choice of the   *)
(* environment, made where the first of them is read (line 251).  Spike    *)
(* times are floats in the program and are only copied and compared for    *)
(* equality, so the model draws them from two integers.  The arguments     *)
(* that carry data are drawn when the call is made; syncLines, legend,     *)
(* popColors and returnPlotter are each read once by the body and are      *)
(* drawn where it reads them: until then args shows the default.           *)
(***************************************************************************)
EXTENDS Integers, Sequences, FiniteSets, Bags, TLC

\* Bounds of the model.
MaxLen == 2            \* longest list of spike times or spike indices
MaxCell == 1           \* cell indices are drawn from 0..MaxCell
MaxCalls == 2          \* calls of plotRaster in one behaviour

\* maxSpikes=1e8, line 17.
DefaultMaxSpikes == 100000000

Times == {1, 2}
Cells == 0..MaxCell
NoTag == -1
TagValues == {0, 1}

SeqsUpTo(S, n) == UNION {[1..k -> S] : k \in 0..n}

\* Python's None and a value that is not None.
None == [some |-> FALSE, val |-> <<>>]
Some(v) == [some |-> TRUE, val |-> v]

\* Population metadata a caller passes as arguments or embeds in rasterData.
ArgPopNumCells == <<3>>
ArgPopLabels == <<"All">>
DataPopNumCells == <<1, 2>>
DataPopLabels == <<"E", "I">>

Range(f) == {f[i] : i \in DOMAIN f}

Min(a, b) == IF a < b THEN a ELSE b

\* sum(popNumCells[:k]): a slice past the end of the list is the whole list.
RECURSIVE SumPrefix(_, _)
SumPrefix(sizes, k) ==
    IF k <= 0 \/ sizes = <<>> THEN 0
    ELSE LET n == Min(k, Len(sizes)) IN sizes[n] + SumPrefix(SubSeq(sizes, 1, n - 1), n - 1)

\* sorted(xs, key=...): a stable ascending sort, here by insertion.
RECURSIVE InsertByKey(_, _, _)
InsertByKey(x, sorted, key) ==
    IF sorted = <<>> THEN <<x>>
    ELSE IF key[x] < key[Head(sorted)] THEN <<x>> \o sorted
    ELSE <<Head(sorted)>> \o InsertByKey(x, Tail(sorted), key)

\* A sort that leaves the list as it is.
SortedByKey_Unsorted(xs, key) == xs

RECURSIVE SortedByKey(_, _)
SortedByKey(xs, key) ==
    IF xs = <<>> THEN <<>>
    ELSE InsertByKey(xs[Len(xs)], SortedByKey(SubSeq(xs, 1, Len(xs) - 1), key), key)

GidKey == [c \in Cells |-> c]

\* The entries of times at the positions where inds holds c:
\* [spkTimes[i] for i, ind in enumerate(spkInds) if ind == cellInd], line 266.
SpikeTimesOf(times, inds, c) ==
    LET idx == SelectSeq([i \in 1..Len(inds) |-> i], LAMBDA i : inds[i] = c)
    IN  [k \in 1..Len(idx) |-> times[idx[k]]]

\* The comprehension of line 266 reads spkTimes[i] past the end of spkTimes.
SyncIndexError(times, inds, c) ==
    \E i \in 1..Len(inds) : inds[i] = c /\ i > Len(times)

\* len([x for x in spkInds if x in range(sum(popNumCells[:i]),
\* sum(popNumCells[:i + 1]))]) for the i-th label (i from 1 here), line 272.
LegendCount(inds, sizes, i) ==
    Cardinality({k \in 1..Len(inds) :
                    /\ SumPrefix(sizes, i - 1) <= inds[k]
                    /\ inds[k] < SumPrefix(sizes, i)})

\* The rasterData a caller can pass: None, a dict with the keys 'spkTimes'
\* and 'spkInds' and optionally 'popNumCells' and 'popLabels', or a list of
\* two, three or four items (lines 55-65).
RasterLists ==
    [kind : {"list"}, spkTimes : SeqsUpTo(Times, MaxLen), spkInds : SeqsUpTo(Cells, MaxLen),
     popNumCells : {None}, popLabels : {None}]
    \cup
    [kind : {"list"}, spkTimes : SeqsUpTo(Times, MaxLen), spkInds : SeqsUpTo(Cells, MaxLen),
     popNumCells : {Some(DataPopNumCells)}, popLabels : {None, Some(DataPopLabels)}]

RasterDicts ==
    [kind : {"dict"}, spkTimes : SeqsUpTo(Times, MaxLen), spkInds : SeqsUpTo(Cells, MaxLen),
     popNumCells : {None, Some(DataPopNumCells)}, popLabels : {None, Some(DataPopLabels)}]

NoRasterData ==
    [kind |-> "none", spkTimes |-> <<>>, spkInds |-> <<>>, popNumCells |-> None, popLabels |-> None]

RasterInputs == RasterLists \cup RasterDicts \cup {NoRasterData}

\* What sim.analysis.prepareRaster returns (line 220): a dict of spike times
\* and indices of one length, with at most maxSpikes events (lines 77-78),
\* and the populations of the network.
PreparedRasters(maxSpikes) ==
    {r \in RasterDicts :
        /\ Len(r.spkTimes) = Len(r.spkInds)
        /\ Len(r.spkTimes) <= maxSpikes
        /\ r.popNumCells.some /\ r.popLabels.some}

VARIABLES
    pc,            \* the block of plotRaster that runs next
    calls,         \* calls of plotRaster made so far
    args,          \* the arguments of the call, as passed
    rasterData,    \* local rasterData
    simBound,      \* the local name sim is bound (lines 215-218)
    cellTags,      \* sim.net.cells[x].tags[orderBy], NoTag where the lookup fails
    spkTimes, spkInds, popNumCells, popLabels, cellInds,
    figCreated,    \* plotter.createFig() was called
    scattered,     \* axis.scatter was called
    scatterX, scatterY,   \* with these x and y
    vlines,        \* cell index |-> the times axis.vlines was called with for it
    legendCounts,  \* the count in the label of each legend handle
    legendDrawn,   \* axis.legend was called
    ordered,       \* the ordering block (lines 253-258) completed
    err,           \* the exception the body raised
    ret,           \* the value returned
    prev           \* the normalized raster of the previous call, fed back in

vars == <<pc, calls, args, rasterData, simBound, cellTags, spkTimes, spkInds,
          popNumCells, popLabels, cellInds, figCreated, scattered, scatterX,
          scatterY, vlines, legendCounts, legendDrawn, ordered,
          err, ret, prev>>

\* The defaults of the signature (lines 14-28).  popColors is None (FALSE)
\* or a dict with a colour for every population label (TRUE).
NoArgs ==
    [rasterData |-> NoRasterData, maxSpikes |-> DefaultMaxSpikes, orderBy |-> "gid",
     popNumCells |-> None, popLabels |-> None, popColors |-> FALSE,
     syncLines |-> FALSE, legend |-> TRUE, returnPlotter |-> FALSE]

NoTags == [c \in Cells |-> NoTag]

NoPrev == [spkTimes |-> <<>>, spkInds |-> <<>>, popNumCells |-> None, popLabels |-> None]

Init ==
    /\ pc = "idle"
    /\ calls = 0
    /\ args = NoArgs
    /\ rasterData = NoRasterData
    /\ simBound = FALSE
    /\ cellTags = NoTags
    /\ spkTimes = <<>>
    /\ spkInds = <<>>
    /\ popNumCells = None
    /\ popLabels = None
    /\ cellInds = {}
    /\ figCreated = FALSE
    /\ scattered = FALSE
    /\ scatterX = <<>>
    /\ scatterY = <<>>
    /\ vlines = <<>>
    /\ legendCounts = <<>>
    /\ legendDrawn = FALSE
    /\ ordered = FALSE
    /\ err = "none"
    /\ ret = "none"
    /\ prev = NoPrev

\* The state of the locals and of the collaborators when a call starts.
Enter(a) ==
    /\ pc' = "getData"
    /\ calls' = calls + 1
    /\ args' = a
    /\ rasterData' = a.rasterData
    /\ popNumCells' = a.popNumCells
    /\ popLabels' = a.popLabels
    /\ simBound' = FALSE
    /\ cellTags' = NoTags
    /\ spkTimes' = <<>>
    /\ spkInds' = <<>>
    /\ cellInds' = {}
    /\ figCreated' = FALSE
    /\ scattered' = FALSE
    /\ scatterX' = <<>>
    /\ scatterY' = <<>>
    /\ vlines' = <<>>
    /\ legendCounts' = <<>>
    /\ legendDrawn' = FALSE
    /\ ordered' = FALSE
    /\ err' = "none"
    /\ ret' = "none"

\* A caller calls plotRaster (lines 13-30), with maxSpikes left at its
\* default or set to one event.
Call ==
    /\ pc = "idle"
    /\ calls = 0
    /\ \E rd \in RasterInputs, ms \in {1, DefaultMaxSpikes},
          ob \in {"gid", "pop"}, pn \in {None, Some(ArgPopNumCells)},
          pl \in {None, Some(ArgPopLabels)} :
            Enter([NoArgs EXCEPT !.rasterData = rd, !.maxSpikes = ms, !.orderBy = ob,
                                 !.popNumCells = pn, !.popLabels = pl])
    /\ prev' = NoPrev

Raise(e) ==
    /\ pc' = "raised"
    /\ err' = e

\* Lines 213-220, rasterData is None: sim is bound (imported or taken from
\* kwargs) and prepareRaster supplies the data.
FetchFromSim ==
    /\ pc = "getData"
    /\ rasterData.kind = "none"
    /\ simBound' = TRUE
    /\ rasterData' \in PreparedRasters(args.maxSpikes)
    /\ cellTags' \in [Cells -> TagValues \cup {NoTag}]
    /\ pc' = "resolve"
    /\ UNCHANGED <<calls, args, spkTimes, spkInds, popNumCells, popLabels, cellInds,
                   figCreated, scattered, scatterX, scatterY, vlines, legendCounts,
                   legendDrawn, ordered, err, ret, prev>>

\* Lines 213-214, rasterData is given: nothing is fetched, sim stays unbound.
KeepRasterData ==
    /\ pc = "getData"
    /\ rasterData.kind # "none"
    /\ pc' = "resolve"
    /\ UNCHANGED <<calls, args, rasterData, simBound, cellTags, spkTimes, spkInds,
                   popNumCells, popLabels, cellInds, figCreated, scattered, scatterX,
                   scatterY, vlines, legendCounts, legendDrawn, ordered, err, ret, prev>>

\* Lines 222-236: a dict overrides popNumCells / popLabels by the keys it
\* has, a list by its third and fourth items.
RasterLen(rd) ==
    2 + (IF rd.popNumCells.some THEN 1 ELSE 0) + (IF rd.popLabels.some THEN 1 ELSE 0)

HasPopNumCells(rd) ==
    IF rd.kind = "dict" THEN rd.popNumCells.some ELSE RasterLen(rd) > 2

\* The fourth item is looked for one place too far.
HasPopLabels_OffByOne(rd) ==
    IF rd.kind = "dict" THEN rd.popLabels.some ELSE RasterLen(rd) > 4

HasPopLabels(rd) ==
    IF rd.kind = "dict" THEN rd.popLabels.some ELSE RasterLen(rd) > 3

ResolvedPopNumCells(rd, arg) == IF HasPopNumCells(rd) THEN rd.popNumCells ELSE arg

ResolvedPopLabels(rd, arg) == IF HasPopLabels(rd) THEN rd.popLabels ELSE arg

ResolveShape ==
    /\ pc = "resolve"
    /\ spkTimes' = rasterData.spkTimes
    /\ spkInds' = rasterData.spkInds
    /\ popNumCells' = ResolvedPopNumCells(rasterData, popNumCells)
    /\ popLabels' = ResolvedPopLabels(rasterData, popLabels)
    /\ pc' = "defaults"
    /\ UNCHANGED <<calls, args, rasterData, simBound, cellTags, cellInds, figCreated,
                   scattered, scatterX, scatterY, vlines, legendCounts, legendDrawn,
                   ordered, err, ret, prev>>

\* Lines 238-245.
\* The number of events instead of the number of distinct cells.
DefaultPopNumCells_Events(inds) == <<Len(inds)>>

DefaultPopNumCells(inds) == <<Cardinality(Range(inds))>>

DefaultPopLabels == <<"Population">>

DefaultPops ==
    /\ pc = "defaults"
    /\ popNumCells' = IF popNumCells.some THEN popNumCells ELSE Some(DefaultPopNumCells(spkInds))
    /\ popLabels' = IF popLabels.some THEN popLabels ELSE Some(DefaultPopLabels)
    /\ cellInds' = Range(spkInds)
    /\ pc' = "createPlotter"
    /\ UNCHANGED <<calls, args, rasterData, simBound, cellTags, spkTimes, spkInds,
                   figCreated, scattered, scatterX, scatterY, vlines, legendCounts,
                   legendDrawn, ordered, err, ret, prev>>

\* Lines 247-251: the figure is created, then title, xlabel and ylabel are
\* read; they are bound only if the module namespace binds them.
CreatePlotter ==
    /\ pc = "createPlotter"
    /\ figCreated' = TRUE
    /\ \E freeNamesBound \in BOOLEAN :
          IF freeNamesBound THEN pc' = "order" /\ err' = err
          ELSE Raise("NameError: title")
    /\ UNCHANGED <<calls, args, rasterData, simBound, cellTags, spkTimes, spkInds,
                   popNumCells, popLabels, cellInds, scattered, scatterX, scatterY,
                   vlines, legendCounts, legendDrawn, ordered, ret, prev>>

\* Lines 253-258: spkInds is sorted, by the index itself or by the cell's
\* tag; spkTimes is left as it is.  The lambda of line 258 reads the local
\* sim, which is bound only when the data was fetched (lines 214-218); a
\* failing lookup raises the lookup's own error.  sorted() of an empty list
\* never calls the key.
OrderedInds(inds, orderBy, tags) ==
    IF orderBy = "gid" THEN SortedByKey(inds, GidKey) ELSE SortedByKey(inds, tags)

OrderInds ==
    /\ pc = "order"
    /\ IF args.orderBy # "gid" /\ spkInds # <<>> /\ ~simBound
       THEN Raise("NameError: sim") /\ UNCHANGED <<spkInds, ordered>>
       ELSE IF args.orderBy # "gid" /\ \E c \in Range(spkInds) : cellTags[c] = NoTag
       THEN Raise("KeyError: tags") /\ UNCHANGED <<spkInds, ordered>>
       ELSE /\ spkInds' = OrderedInds(spkInds, args.orderBy, cellTags)
            /\ ordered' = TRUE
            /\ pc' = "scatter"
            /\ err' = err
    /\ UNCHANGED <<calls, args, rasterData, simBound, cellTags, spkTimes, popNumCells,
                   popLabels, cellInds, figCreated, scattered, scatterX, scatterY,
                   vlines, legendCounts, legendDrawn, ret, prev>>

\* Lines 260-261: the times and the ordered indices are handed to scatter.
Scatter ==
    /\ pc = "scatter"
    /\ scattered' = TRUE
    /\ scatterX' = spkTimes
    /\ scatterY' = spkInds
    /\ pc' = "sync"
    /\ UNCHANGED <<calls, args, rasterData, simBound, cellTags, spkTimes, spkInds,
                   popNumCells, popLabels, cellInds, figCreated, vlines, legendCounts,
                   legendDrawn, ordered, err, ret, prev>>

\* Lines 263-268: for each cell index, one vertical line per entry of
\* spkTimes at a position where the ordered spkInds holds that index.  The
\* order in which the set of cell indices is walked is not fixed, so when a
\* position lies past the end of spkTimes the cells already drawn are any
\* of those whose own positions are all in range.
SyncLines ==
    /\ pc = "sync"
    /\ \E sync \in BOOLEAN : args' = [args EXCEPT !.syncLines = sync]
    /\ IF ~args'.syncLines
       THEN pc' = "legend" /\ UNCHANGED <<vlines, err>>
       ELSE LET failing == {c \in cellInds : SyncIndexError(spkTimes, spkInds, c)}
            IN  IF failing = {}
                THEN /\ vlines' = [c \in cellInds |-> SpikeTimesOf(spkTimes, spkInds, c)]
                     /\ pc' = "legend"
                     /\ err' = err
                ELSE /\ \E drawn \in SUBSET (cellInds \ failing) :
                            vlines' = [c \in drawn |-> SpikeTimesOf(spkTimes, spkInds, c)]
                     /\ Raise("IndexError: spkTimes")
    /\ UNCHANGED <<calls, rasterData, simBound, cellTags, spkTimes, spkInds,
                   popNumCells, popLabels, cellInds, figCreated, scattered, scatterX,
                   scatterY, legendCounts, legendDrawn, ordered, ret, prev>>

\* Lines 270-274: one handle per population label; mpatches is imported
\* only under __gui__ (lines 5-6), and popColors[pop] needs a dict.
LegendCounts(inds, sizes, labels) ==
    [i \in 1..Len(labels) |-> LegendCount(inds, sizes, i)]

Legend ==
    /\ pc = "legend"
    /\ \/ /\ args' = [args EXCEPT !.legend = FALSE]
          /\ pc' = "finish"
          /\ UNCHANGED <<legendCounts, legendDrawn, err>>
       \/ \E gui \in BOOLEAN, colors \in BOOLEAN :
              IF ~gui
              THEN /\ args' = [args EXCEPT !.legend = TRUE]
                   /\ Raise("NameError: mpatches")
                   /\ UNCHANGED <<legendCounts, legendDrawn>>
              ELSE /\ args' = [args EXCEPT !.legend = TRUE, !.popColors = colors]
                   /\ IF ~colors
                      THEN Raise("TypeError: popColors") /\ UNCHANGED <<legendCounts, legendDrawn>>
                      ELSE /\ legendCounts' = LegendCounts(spkInds, popNumCells.val, popLabels.val)
                           /\ legendDrawn' = TRUE
                           /\ pc' = "finish"
                           /\ err' = err
    /\ UNCHANGED <<calls, rasterData, simBound, cellTags, spkTimes, spkInds,
                   popNumCells, popLabels, cellInds, figCreated, scattered, scatterX,
                   scatterY, vlines, ordered, ret, prev>>

\* Lines 276-288: rcParams, show and save are handed to plt and the plotter
\* and leave nothing in the function's state; the figure or the plotter is
\* returned.
ReturnValue(returnPlotter) == IF returnPlotter THEN "plotter" ELSE "fig"

Finish ==
    /\ pc = "finish"
    /\ \E rp \in BOOLEAN : args' = [args EXCEPT !.returnPlotter = rp]
    /\ ret' = ReturnValue(args'.returnPlotter)
    /\ pc' = "returned"
    /\ UNCHANGED <<calls, rasterData, simBound, cellTags, spkTimes, spkInds,
                   popNumCells, popLabels, cellInds, figCreated, scattered, scatterX,
                   scatterY, vlines, legendCounts, legendDrawn, ordered, err, prev>>

\* The caller feeds the normalized raster of a call that ordered by index
\* back in as a four-item list.
Normalized ==
    [spkTimes |-> spkTimes, spkInds |-> spkInds,
     popNumCells |-> popNumCells, popLabels |-> popLabels]

Refeed ==
    /\ pc \in {"returned", "raised"}
    /\ ordered
    /\ args.orderBy = "gid"
    /\ calls < MaxCalls
    /\ \E pn \in {None, Some(ArgPopNumCells)}, pl \in {None, Some(ArgPopLabels)} :
          Enter([NoArgs EXCEPT !.rasterData =
                                  [kind |-> "list", spkTimes |-> spkTimes, spkInds |-> spkInds,
                                   popNumCells |-> popNumCells, popLabels |-> popLabels],
                               !.popNumCells = pn, !.popLabels = pl])
    /\ prev' = Normalized

Next ==
    \/ Call
    \/ FetchFromSim
    \/ KeepRasterData
    \/ ResolveShape
    \/ DefaultPops
    \/ CreatePlotter
    \/ OrderInds
    \/ Scatter
    \/ SyncLines
    \/ Legend
    \/ Finish
    \/ Refeed

Spec == Init /\ [][Next]_vars

(***************************************************************************)
(* The properties.                                                         *)
(***************************************************************************)

\* The multiset of the entries of a list.
BagOfSeq(xs) ==
    [v \in Range(xs) |-> Cardinality({i \in DOMAIN xs : xs[i] = v})]

\* The multiset of (time, index) pairs of two lists of one length.
PairsBag(times, inds) ==
    BagOfSeq([i \in 1..Len(inds) |-> <<times[i], inds[i]>>])

NonDecreasing(xs) == \A i, j \in DOMAIN xs : i < j => xs[i] <= xs[j]

MaxOf(S) == CHOOSE m \in S : \A x \in S : x <= m

SumOf(sizes) == SumPrefix(sizes, Len(sizes))

\* The input of the call: the rasterData passed, or the one fetched.
ValidInput == Len(rasterData.spkTimes) = Len(rasterData.spkInds)

PastDefaults == pc \notin {"idle", "getData", "resolve", "defaults"}

Ended == pc \in {"returned", "raised"}

\* C1: for a valid input the multiset of (time, index) pairs handed to
\* scatter is the multiset of (spkTimes[i], spkInds[i]) pairs of the input.
C1_PairingPreserved ==
    (scattered /\ ValidInput) =>
        /\ Len(scatterX) = Len(scatterY)
        /\ PairsBag(scatterX, scatterY) = PairsBag(rasterData.spkTimes, rasterData.spkInds)

\* C2: when the spike times and spike indices passed differ in length, the
\* call ends with a MalformedInputError and no figure is created and nothing
\* is handed to scatter.
C2_MalformedInputRejected ==
    (args.rasterData.kind # "none" /\ ~ValidInput /\ PastDefaults) =>
        /\ ~figCreated
        /\ ~scattered
        /\ Ended => (pc = "raised" /\ err = "MalformedInputError")

\* C3: once the populations are settled, the sizes are the ones embedded in
\* rasterData, else the ones passed as popNumCells, else the one-element
\* list of the number of distinct spike indices; the labels are the ones
\* embedded, else the ones passed, else ["Population"].
C3_PopulationDefaulting ==
    PastDefaults =>
        /\ popNumCells =
              IF rasterData.popNumCells.some THEN rasterData.popNumCells
              ELSE IF args.popNumCells.some THEN args.popNumCells
              ELSE Some(<<Cardinality({rasterData.spkInds[i] : i \in DOMAIN rasterData.spkInds})>>)
        /\ popLabels =
              IF rasterData.popLabels.some THEN rasterData.popLabels
              ELSE IF args.popLabels.some THEN args.popLabels
              ELSE Some(<<"Population">>)

\* C3 witness: no metadata, two events of one cell: sizes [1], not [2].
C3_Witness ==
    /\ pc = "createPlotter"
    /\ ~rasterData.popNumCells.some /\ ~rasterData.popLabels.some
    /\ ~args.popNumCells.some /\ ~args.popLabels.some
    /\ rasterData.spkInds = <<1, 1>>
    /\ popNumCells = Some(<<1>>)
    /\ popLabels = Some(<<"Population">>)

\* C4: the events handed to scatter number at most maxSpikes.
C4_EventBounding ==
    (scattered /\ ValidInput) =>
        (Len(scatterX) <= args.maxSpikes /\ Len(scatterY) <= args.maxSpikes)

\* C5: under orderBy = 'gid' the indices handed to scatter are
\* non-decreasing and a permutation of the input spike indices.
C5_OrderingCorrect ==
    (scattered /\ args.orderBy = "gid") =>
        /\ NonDecreasing(scatterY)
        /\ BagOfSeq(scatterY) = BagOfSeq(rasterData.spkInds)

\* C5 witness: indices [1, 0] are plotted as [0, 1].
C5_Witness ==
    /\ scattered
    /\ args.orderBy = "gid"
    /\ rasterData.spkInds = <<1, 0>>
    /\ scatterY = <<0, 1>>

\* C6: a call fed the normalized raster of an index-ordered call as a
\* four-item list normalizes it to the same times, indices, population
\* sizes and population labels.
C6_Idempotent ==
    (calls >= 2 /\ ordered) =>
        /\ spkTimes = prev.spkTimes
        /\ spkInds = prev.spkInds
        /\ popNumCells = prev.popNumCells
        /\ popLabels = prev.popLabels

\* C6 witness: the second call has plotted a raster of two cells whose
\* labels are not the ones its popLabels argument carries.
C6_Witness ==
    /\ calls = 2
    /\ scattered
    /\ prev.spkInds = <<0, 1>>
    /\ args.popLabels.some
    /\ popLabels # args.popLabels
    /\ popLabels = prev.popLabels

\* C7: when the population sizes are inferred from a non-empty input, they
\* sum to at least max(spkInds) + 1 and are as many as the labels.
C7_InferredPopsCover ==
    (/\ PastDefaults
     /\ ~rasterData.popNumCells.some /\ ~args.popNumCells.some
     /\ rasterData.spkInds # <<>>) =>
        /\ SumOf(popNumCells.val) >= MaxOf(Range(rasterData.spkInds)) + 1
        /\ Len(popNumCells.val) = Len(popLabels.val)

\* The ordering block (line 253) was reached.
ReachedOrdering ==
    \/ pc \in {"scatter", "sync", "legend", "finish", "returned"}
    \/ pc = "raised" /\ err # "NameError: title"

\* The ordering lookup cannot be resolved for a cell index of the input.
LookupUnresolvable ==
    /\ args.orderBy # "gid"
    /\ \E c \in Range(rasterData.spkInds) : ~simBound \/ cellTags[c] = NoTag

\* C8: when orderBy is a tag and the lookup cannot be resolved for a cell
\* index of the input, the call ends with an UnresolvableOrderingKeyError
\* and nothing is handed to scatter.
C8_UnresolvableOrderingKey ==
    (LookupUnresolvable /\ ReachedOrdering) =>
        /\ pc = "raised"
        /\ err = "UnresolvableOrderingKeyError"
        /\ ~scattered

DefaultOptions ==
    /\ args.orderBy = "gid"
    /\ args.maxSpikes = DefaultMaxSpikes
    /\ ~args.popNumCells.some /\ ~args.popLabels.some
    /\ ~args.popColors
    /\ ~args.syncLines
    /\ args.legend

\* C9: a call with a valid rasterData and otherwise default options raises
\* nothing, and returns the figure, or the plotter under returnPlotter.
C9_ReturnsFigure ==
    (args.rasterData.kind # "none" /\ ValidInput /\ DefaultOptions) =>
        /\ pc # "raised"
        /\ pc = "returned" =>
              /\ scattered
              /\ ret = IF args.returnPlotter THEN "plotter" ELSE "fig"

\* The times of the input events of cell c, in input order.
InputTimesOf(c) ==
    LET idx == SelectSeq([i \in 1..Len(rasterData.spkInds) |-> i],
                         LAMBDA i : rasterData.spkInds[i] = c)
    IN  [k \in 1..Len(idx) |-> rasterData.spkTimes[idx[k]]]

\* C10: under syncLines, once the lines are drawn, the vertical lines drawn
\* for each cell index c of the input are at the times of the input events
\* of c, one line per event.
C10_SyncMarkers ==
    (args.syncLines /\ ValidInput /\ pc \in {"legend", "finish", "returned"}) =>
        \A c \in Range(rasterData.spkInds) :
            /\ c \in DOMAIN vlines
            /\ BagOfSeq(vlines[c]) = BagOfSeq(InputTimesOf(c))

====
